---- MODULE Spec2Model ----
(***************************************************************************)
(* Model of the TSDB store of src/src/tsdb.hh: the Schema type registry    *)
(* with its struct-layout computation, the Column / Table columnar storage *)
(* and the TSDB facade that maps typed values to and from raw bytes.       *)
(*                                                                         *)
(* Handles, sizes, alignments and offsets are the integers of the code.    *)
(* All of them stay far below 2^31 within the bounds of the model, so the  *)
(* u32 arithmetic of register_struct never wraps here.  A value of a       *)
(* caller's type T is the sequence of its sizeof(T) bytes.                 *)
(*                                                                         *)
(* An out-of-bounds access is undefined behaviour.  The mutating calls     *)
(* choose among the outcomes a build can produce: the access traps         *)
(* (outcome "crash", nothing written) or it yields garbage and the call    *)
(* carries on (outcome "ub").  The const calls return the SET of their     *)
(* possible results.  After either outcome the run is over.                *)
(***************************************************************************)
EXTENDS Integers, Sequences, FiniteSets, TLC

VARIABLES
    types_,          \* Schema::types_          : sequence of TypeMeta, index handle + 1
    type_names_,     \* Schema::type_names_     : sequence of names, index handle + 1
    field_types_,    \* Schema::field_types_    : handles of all fields of all structs
    field_offsets_,  \* Schema::field_offsets_  : offsets of all fields of all structs
    field_names_,    \* Schema::field_names_    : names of all fields of all structs
    tables_,         \* TSDB::tables_           : handle -> Table, for the handles that have one
    inserted,        \* history: handle -> the values passed to insert for it, in call order
    reg_calls,       \* history: the number of register_struct calls that returned
    last             \* the last mutating call: its arguments, its outcome, its return value

vars == <<types_, type_names_, field_types_, field_offsets_, field_names_,
          tables_, inserted, reg_calls, last>>

schema_ == <<types_, type_names_, field_types_, field_offsets_, field_names_>>

----------------------------------------------------------------------------
(* Bounds of the model *)

\* Spec: at most this many register_struct and insert calls in one run.
MaxCalls == 4
\* Spec: at most this many fields over all registered structs.
MaxSlots == 2
\* SpecSchema: at most this many register_struct calls in one run.
MaxSchemaCalls == 2
\* SpecSchema: at most this many fields over all registered structs.
MaxSchemaSlots == 3

----------------------------------------------------------------------------
(* Schema::TypeKind *)

U8 == 0
U16 == 1
U32 == 2
U64 == 3
I8 == 4
I16 == 5
I32 == 6
I64 == 7
F32 == 8
F64 == 9
BOOL == 10
TIMESTAMP_NS == 11
NUM_PRIMITIVES == 12
STRUCT == 13

Max(a, b) == IF a >= b THEN a ELSE b

RECURSIVE BitAnd(_, _)
BitAnd(x, y) ==
    IF x = 0 \/ y = 0 THEN 0
    ELSE (x % 2) * (y % 2) + 2 * BitAnd(x \div 2, y \div 2)

\* align_up without the "- 1": (value + alignment) & ~(alignment - 1).
align_up_off_by_one(value, alignment) ==
    IF alignment = 0 THEN 0
    ELSE LET x == value + alignment
         IN  x - BitAnd(x, alignment - 1)

\* (value + alignment - 1) & ~(alignment - 1).  x & ~m is x - (x & m); with
\* alignment 0 the mask ~(0 - 1) is 0 and so is the result.
align_up(value, alignment) ==
    IF alignment = 0 THEN 0
    ELSE LET x == value + alignment - 1
         IN  x - BitAnd(x, alignment - 1)

TypeMeta(size, alignment, field_begin, field_count, kind) ==
    [size_ |-> size, alignment_ |-> alignment, field_begin_ |-> field_begin,
     field_count_ |-> field_count, kind_ |-> kind]

\* add with the alignment left at 1 instead of the size.
add_unaligned(ts, size) == Append(ts, TypeMeta(size, 1, 0, 0, Len(ts)))

\* The add lambda of init_primitives: alignment = size, kind = the handle.
add(ts, size) == Append(ts, TypeMeta(size, size, 0, 0, Len(ts)))

RECURSIVE add_all(_, _)
add_all(ts, sizes) ==
    IF sizes = <<>> THEN ts ELSE add_all(add(ts, Head(sizes)), Tail(sizes))

init_primitives == add_all(<<>>, <<1, 2, 4, 8, 1, 2, 4, 8, 4, 8, 1, 8>>)

init_primitive_names ==
    <<"u8", "u16", "u32", "u64", "i8", "i16", "i32", "i64", "f32", "f64",
      "bool", "timestamp_ns">>

ValidHandle(h) == h >= 0 /\ h < Len(types_)

\* What a read of types_[h] past the end of the vector can yield.
GarbageMeta == {TypeMeta(3, 1, 0, 0, STRUCT), TypeMeta(6, 4, 0, 0, U8)}

NoMeta == TypeMeta(0, 0, 0, 0, 0)

\* The values an out-of-bounds read of types_ stands for in one call: all of
\* GarbageMeta when the call makes such a read, nothing to choose otherwise.
MetaReads(in_bounds) == IF in_bounds THEN {NoMeta} ELSE GarbageMeta

\* types_[type.v_], with g standing for what an out-of-bounds read yields.
meta_read(h, g) == IF ValidHandle(h) THEN types_[h + 1] ELSE g

\* The const accessors: the set of results the call can produce.
meta_of(h) ==
    IF ValidHandle(h)
    THEN {[outcome |-> "ok", meta |-> types_[h + 1]]}
    ELSE {[outcome |-> "crash", meta |-> NoMeta]}
         \cup {[outcome |-> "ub", meta |-> g] : g \in GarbageMeta}

kind_of(h)  == {[outcome |-> r.outcome, value |-> r.meta.kind_] : r \in meta_of(h)}
size_of(h)  == {[outcome |-> r.outcome, value |-> r.meta.size_] : r \in meta_of(h)}
align_of(h) == {[outcome |-> r.outcome, value |-> r.meta.alignment_] : r \in meta_of(h)}

Span(seq, begin, count) == [i \in 1..count |-> seq[begin + i]]

\* field_types / field_offsets / field_names of a valid handle.
field_types(h)   == Span(field_types_, types_[h + 1].field_begin_, types_[h + 1].field_count_)
field_offsets(h) == Span(field_offsets_, types_[h + 1].field_begin_, types_[h + 1].field_count_)
field_names(h)   == Span(field_names_, types_[h + 1].field_begin_, types_[h + 1].field_count_)

\* The loop of register_struct over the metas of the fields, from field i on.
RECURSIVE layout_loop(_, _, _)
layout_loop(metas, i, acc) ==
    IF i > Len(metas) THEN acc
    ELSE LET meta == metas[i]
             al   == Max(acc.struct_alignment, meta.alignment_)
             off  == align_up(acc.struct_size, meta.alignment_)
         IN  layout_loop(metas, i + 1,
                 [struct_alignment |-> al,
                  struct_size      |-> off + meta.size_,
                  offsets          |-> Append(acc.offsets, off)])

\* The layout register_struct computes: offsets, alignment, padded size.
layout(metas) ==
    LET r == layout_loop(metas, 1,
                 [struct_alignment |-> 1, struct_size |-> 0, offsets |-> <<>>])
    IN  [offsets          |-> r.offsets,
         struct_alignment |-> r.struct_alignment,
         struct_size      |-> align_up(r.struct_size, r.struct_alignment)]

\* The record of a call: the operation, its type handle, value and field-type
\* arguments, its outcome and the handle it returned (-1 where there is none);
\* size is sizeof(T) of the caller's type, value and meta are what a const
\* call returned.
call(op, type, src, fields, outcome, ret) ==
    [op |-> op, type |-> type, src |-> src, fields |-> fields,
     outcome |-> outcome, ret |-> ret, size |-> Len(src), value |-> <<>>,
     meta |-> NoMeta]

NoCall == call("none", -1, <<>>, <<>>, "ok", -1)

Running == last.outcome = "ok"

Init ==
    /\ types_ = init_primitives
    /\ type_names_ = init_primitive_names
    /\ field_types_ = <<>>
    /\ field_offsets_ = <<>>
    /\ field_names_ = <<>>
    /\ tables_ = <<>>
    /\ inserted = <<>>
    /\ reg_calls = 0
    /\ last = NoCall

\* The handle taken after the push_back instead of before it.
new_handle_after_push == Len(types_) + 1

\* TypeHandle{types_.size()}: the handle register_struct returns.
new_handle == Len(types_)

\* Schema::register_struct(name, fields), fields given as names and handles;
\* g stands for what an out-of-bounds read of types_ yields.
register_struct(name, fnames, ftypes, g) ==
    LET metas       == [i \in 1..Len(ftypes) |-> meta_read(ftypes[i], g)]
        lay         == layout(metas)
        field_begin == Len(field_types_)
        handle      == new_handle
        defined     == \A i \in 1..Len(ftypes) : ValidHandle(ftypes[i])
    IN  /\ field_offsets_' = field_offsets_ \o lay.offsets
        /\ field_types_' = field_types_ \o ftypes
        /\ field_names_' = field_names_ \o fnames
        /\ types_' = Append(types_, TypeMeta(lay.struct_size, lay.struct_alignment,
                                field_begin, Len(ftypes) % 65536, STRUCT))
        /\ type_names_' = Append(type_names_, name)
        /\ reg_calls' = reg_calls + 1
        /\ last' = call("register_struct", -1, <<>>, ftypes, IF defined THEN "ok" ELSE "ub", handle)

\* The out-of-bounds read traps: the process ends, nothing was written.
crash(op, type, src, ftypes) ==
    /\ last' = call(op, type, src, ftypes, "crash", -1)
    /\ UNCHANGED <<schema_, tables_, inserted, reg_calls>>

----------------------------------------------------------------------------
(* Column *)

Column(elem_size) == [elem_size_ |-> elem_size, data_ |-> <<>>]

\* What a read past the end of the caller's value can yield.
GarbageBytes == {0, 255}

ByteReads(in_bounds) == IF in_bounds THEN {0} ELSE GarbageBytes

\* The byte src[k - 1] of a value, gb standing for a read past its end.
byte_read(src, k, gb) == IF k <= Len(src) THEN src[k] ELSE gb

\* push that reads at src instead of src + off.
push_no_offset(col, src, off, gb) ==
    [col EXCEPT !.data_ =
        col.data_ \o [k \in 1..col.elem_size_ |-> byte_read(src, k, gb)]]

\* Column::push(src + off): appends the elem_size_ bytes found at src + off.
push(col, src, off, gb) ==
    [col EXCEPT !.data_ =
        col.data_ \o [k \in 1..col.elem_size_ |-> byte_read(src, off + k, gb)]]

\* Column::at(row): the position of the row's element in data_.
at(col, row) == row * col.elem_size_

\* Column::row_count
col_row_count(col) ==
    IF col.elem_size_ > 0 THEN Len(col.data_) \div col.elem_size_ ELSE 0

----------------------------------------------------------------------------
(* Table *)

Table(field_sizes, foffsets) ==
    [row_count_     |-> 0,
     field_offsets_ |-> foffsets,
     columns_       |-> [i \in 1..Len(field_sizes) |-> Column(field_sizes[i])]]

\* insert_row without the ++row_count_.
insert_row_no_count(table, src, gb) ==
    [table EXCEPT
        !.columns_ = [i \in 1..Len(table.columns_) |->
                         push(table.columns_[i], src, table.field_offsets_[i], gb)]]

\* Table::insert_row(src)
insert_row(table, src, gb) ==
    [table EXCEPT
        !.columns_ = [i \in 1..Len(table.columns_) |->
                         push(table.columns_[i], src, table.field_offsets_[i], gb)],
        !.row_count_ = table.row_count_ + 1]

\* Table::row_count
row_count(table) == table.row_count_

\* Does insert_row(src) read only bytes of the caller's value?
insert_in_bounds(table, n) ==
    \A i \in 1..Len(table.columns_) :
        table.columns_[i].elem_size_ = 0
        \/ table.field_offsets_[i] + table.columns_[i].elem_size_ <= n

\* Does read_row(row, dst) write only bytes of the caller's buffer of n bytes?
read_in_bounds(table, n) ==
    \A i \in 1..Len(table.columns_) :
        table.columns_[i].elem_size_ = 0
        \/ table.field_offsets_[i] + table.columns_[i].elem_size_ <= n

\* The memcpy of read_row for column i: elem_size bytes to dst + offset.  A
\* byte that falls past the end of dst is not part of the returned value.
copy_column(table, row, dst, i) ==
    LET col == table.columns_[i]
        off == table.field_offsets_[i]
    IN  [k \in 1..Len(dst) |->
            IF k > off /\ k <= off + col.elem_size_
            THEN col.data_[at(col, row) + (k - off)]
            ELSE dst[k]]

\* Table::read_row(row, dst): the loop over the columns, from column i on.
RECURSIVE read_row_loop(_, _, _, _)
read_row_loop(table, row, dst, i) ==
    IF i > Len(table.columns_) THEN dst
    ELSE read_row_loop(table, row, copy_column(table, row, dst, i), i + 1)

read_row(table, row, dst) == read_row_loop(table, row, dst, 1)

----------------------------------------------------------------------------
(* TSDB *)

\* T{}: the zero-initialised value of a type of n bytes.
zero_value(n) == [k \in 1..n |-> 0]

HasTable(h) == h \in DOMAIN tables_

\* TSDB::get_or_create_table(type): the table insert appends to.
get_or_create_table(h, g) ==
    IF HasTable(h) THEN tables_[h]
    ELSE LET m        == meta_read(h, g)
             ftypes   == Span(field_types_, m.field_begin_, m.field_count_)
             foffsets == Span(field_offsets_, m.field_begin_, m.field_count_)
             field_sizes == [i \in 1..Len(ftypes) |-> types_[ftypes[i] + 1].size_]
         IN  Table(field_sizes, foffsets)

\* insert with tables_ keyed by the kind of the type instead of its handle.
insert_by_kind(src, h, g, gb) ==
    LET key     == meta_read(h, g).kind_
        table   == IF HasTable(key) THEN tables_[key] ELSE get_or_create_table(h, g)
        defined == (HasTable(h) \/ ValidHandle(h)) /\ insert_in_bounds(table, Len(src))
    IN  /\ tables_' = (key :> insert_row(table, src, gb)) @@ tables_
        /\ inserted' = (h :> (IF h \in DOMAIN inserted THEN inserted[h] ELSE <<>>) \o <<src>>)
                          @@ inserted
        /\ last' = call("insert", h, src, <<>>, IF defined THEN "ok" ELSE "ub", -1)
        /\ UNCHANGED <<schema_, reg_calls>>

\* TSDB::insert(src, type)
insert(src, h, g, gb) ==
    LET table   == get_or_create_table(h, g)
        defined == (HasTable(h) \/ ValidHandle(h)) /\ insert_in_bounds(table, Len(src))
    IN  /\ tables_' = (h :> insert_row(table, src, gb)) @@ tables_
        /\ inserted' = (h :> (IF h \in DOMAIN inserted THEN inserted[h] ELSE <<>>) \o <<src>>)
                          @@ inserted
        /\ last' = call("insert", h, src, <<>>, IF defined THEN "ok" ELSE "ub", -1)
        /\ UNCHANGED <<schema_, reg_calls>>

\* query_first reading the last row instead of row 0.
query_first_last_row(h, n) ==
    IF ~HasTable(h) \/ row_count(tables_[h]) = 0
    THEN {[outcome |-> "ok", value |-> zero_value(n)]}
    ELSE IF read_in_bounds(tables_[h], n)
    THEN {[outcome |-> "ok",
           value |-> read_row(tables_[h], row_count(tables_[h]) - 1, zero_value(n))]}
    ELSE {[outcome |-> "crash", value |-> <<>>],
          [outcome |-> "ub",
           value |-> read_row(tables_[h], row_count(tables_[h]) - 1, zero_value(n))]}

\* TSDB::query_first<T>(type) with sizeof(T) = n: the set of results the call
\* can produce.
query_first(h, n) ==
    IF ~HasTable(h) \/ row_count(tables_[h]) = 0
    THEN {[outcome |-> "ok", value |-> zero_value(n)]}
    ELSE IF read_in_bounds(tables_[h], n)
    THEN {[outcome |-> "ok", value |-> read_row(tables_[h], 0, zero_value(n))]}
    ELSE {[outcome |-> "crash", value |-> <<>>],
          [outcome |-> "ub", value |-> read_row(tables_[h], 0, zero_value(n))]}

----------------------------------------------------------------------------
(* The callers *)

\* The values a caller passes: n bytes, all nonzero, all different.
Seeds == {1, 2}
value(seed, n) == [k \in 1..n |-> (16 * seed + k) % 256]

StructHandles == NUM_PRIMITIVES .. (Len(types_) - 1)

\* The handles a caller uses: primitives, the registered structs, and the
\* first handle past the registry (the one the next struct will receive).
HandlesOver(prims) == prims \cup StructHandles \cup {Len(types_)}

\* sizeof(T) of a caller's type: the registered size, one less, one more.
TSizes(h) ==
    IF ValidHandle(h)
    THEN {n \in {types_[h + 1].size_ - 1, types_[h + 1].size_, types_[h + 1].size_ + 1} : n >= 1}
    ELSE {1}

RECURSIVE SumLen(_, _)
SumLen(f, S) ==
    IF S = {} THEN 0
    ELSE LET x == CHOOSE y \in S : TRUE IN Len(f[x]) + SumLen(f, S \ {x})

\* The number of register_struct and insert calls made so far.
Calls == reg_calls + SumLen(inserted, DOMAIN inserted)

RegisterStruct(prims, names, maxCalls, maxSlots) ==
    /\ Running
    /\ Calls < maxCalls
    /\ \E n \in 0..(maxSlots - Len(field_types_)) :
       \E ftypes \in [1..n -> HandlesOver(prims)] :
       \E nm \in names :
       \E g \in MetaReads(\A i \in 1..n : ValidHandle(ftypes[i])) :
           register_struct("S", [i \in 1..n |-> nm], ftypes, g)
    /\ UNCHANGED <<tables_, inserted>>

RegisterStructCrash(prims, maxCalls, maxSlots) ==
    /\ Running
    /\ Calls < maxCalls
    /\ \E n \in 0..(maxSlots - Len(field_types_)) :
       \E ftypes \in [1..n -> HandlesOver(prims)] :
           /\ \E i \in 1..n : ~ValidHandle(ftypes[i])
           /\ crash("register_struct", -1, <<>>, ftypes)

Insert(prims, maxCalls) ==
    /\ Running
    /\ Calls < maxCalls
    /\ \E h \in HandlesOver(prims) :
       \E n \in TSizes(h) :
       \E seed \in Seeds :
       \E g \in MetaReads(HasTable(h) \/ ValidHandle(h)) :
       \E gb \in ByteReads(insert_in_bounds(get_or_create_table(h, g), n)) :
           insert(value(seed, n), h, g, gb)

InsertCrash(prims, maxCalls) ==
    /\ Running
    /\ Calls < maxCalls
    /\ \E h \in HandlesOver(prims) :
       \E n \in TSizes(h) :
       \E seed \in Seeds :
           /\ \/ ~ValidHandle(h)
              \/ ~insert_in_bounds(get_or_create_table(h, NoMeta), n)
           /\ crash("insert", h, value(seed, n), <<>>)

\* The store: small structs over u8 and u16, registrations and inserts.
StorePrims == {U8, U16}
StoreNames == {"x"}
\* The primitive handles insert and the const calls are called with.
InsertPrims == {}
CallsPrims == {U8}

Next ==
    \/ RegisterStruct(StorePrims, StoreNames, MaxCalls, MaxSlots)
    \/ RegisterStructCrash(StorePrims, MaxCalls, MaxSlots)
    \/ Insert(InsertPrims, MaxCalls)
    \/ InsertCrash(InsertPrims, MaxCalls)

Spec == Init /\ [][Next]_vars

\* The registry alone: wider structs over u8, u16, u32 and u64.
SchemaPrims == {U8, U16, U32, U64}
SchemaNames == {"x", "y"}

NextSchema ==
    \/ RegisterStruct(SchemaPrims, SchemaNames, MaxSchemaCalls, MaxSchemaSlots)
    \/ RegisterStructCrash(SchemaPrims, MaxSchemaCalls, MaxSchemaSlots)

SpecSchema == Init /\ [][NextSchema]_vars

\* A caller's query_first<T>(type) with sizeof(T) = n, and what it returned.
QueryFirst(prims) ==
    /\ Running
    /\ \E h \in HandlesOver(prims) :
       \E n \in TSizes(h) :
       \E r \in query_first(h, n) :
           last' = [call("query_first", h, <<>>, <<>>, r.outcome, -1)
                       EXCEPT !.size = n, !.value = r.value]
    /\ UNCHANGED <<schema_, tables_, inserted, reg_calls>>

\* A caller's meta_of(type), and what it returned.
MetaOf(prims) ==
    /\ Running
    /\ \E h \in HandlesOver(prims) :
       \E r \in meta_of(h) :
           last' = [call("meta_of", h, <<>>, <<>>, r.outcome, -1) EXCEPT !.meta = r.meta]
    /\ UNCHANGED <<schema_, tables_, inserted, reg_calls>>

\* A caller's size_of(type), align_of(type) or kind_of(type), and what it
\* returned.
Accessor(prims) ==
    /\ Running
    /\ \E h \in HandlesOver(prims) :
       \E acc \in {"size_of", "align_of", "kind_of"} :
       \E r \in (CASE acc = "size_of"  -> size_of(h)
                   [] acc = "align_of" -> align_of(h)
                   [] acc = "kind_of"  -> kind_of(h)) :
           last' = [call(acc, h, <<>>, <<>>, r.outcome, -1) EXCEPT !.value = <<r.value>>]
    /\ UNCHANGED <<schema_, tables_, inserted, reg_calls>>

\* The store with the const calls as steps of their own.
NextCalls ==
    \/ RegisterStruct(StorePrims, StoreNames, MaxCalls, MaxSlots)
    \/ RegisterStructCrash(StorePrims, MaxCalls, MaxSlots)
    \/ Insert(CallsPrims, MaxCalls)
    \/ InsertCrash(CallsPrims, MaxCalls)
    \/ QueryFirst(CallsPrims)
    \/ MetaOf(CallsPrims)
    \/ Accessor(CallsPrims)

SpecCalls == Init /\ [][NextCalls]_vars

----------------------------------------------------------------------------
(* Notions the properties are stated in *)

IsStruct(h) == ValidHandle(h) /\ types_[h + 1].kind_ = STRUCT

\* Every field of struct h has the handle of a type registered before h.
FieldsRegistered(h) ==
    \A i \in 1..Len(field_types(h)) :
        field_types(h)[i] >= 0 /\ field_types(h)[i] < h

FieldMeta(h, i) == types_[field_types(h)[i] + 1]

\* The end (offset + size) of field i of struct h; 0 before the first field.
FieldEnd(h, i) ==
    IF i = 0 THEN 0 ELSE field_offsets(h)[i] + FieldMeta(h, i).size_

\* Byte k (counted from 1) of struct h lies inside one of its fields.
InField(h, k) ==
    \E i \in 1..Len(field_types(h)) :
        k > field_offsets(h)[i] /\ k <= FieldEnd(h, i)

RegisteredSize(h) == types_[h + 1].size_

----------------------------------------------------------------------------
(* C10: primitive handles *)

\* The sizes the primitive kinds are documented to have, in handle order.
PrimitiveSizes == <<1, 2, 4, 8, 1, 2, 4, 8, 4, 8, 1, 8>>

\* The named constants TSDB::U8 .. TSDB::TIMESTAMP_NS, in the documented order.
PrimitiveConstants ==
    <<U8, U16, U32, U64, I8, I16, I32, I64, F32, F64, BOOL, TIMESTAMP_NS>>

\* C10: in every state handles 0..11 are the primitive kinds U8, U16, U32,
\* U64, I8, I16, I32, I64, F32, F64, BOOL, TIMESTAMP_NS in that order, with
\* sizes 1, 2, 4, 8, 1, 2, 4, 8, 4, 8, 1, 8, alignment equal to size and no
\* fields; the named constant of a kind is the handle whose kind_of is that
\* kind; and register_struct never returns a handle below 12.
C10_PrimitiveHandles ==
    /\ Len(types_) >= NUM_PRIMITIVES
    /\ Len(PrimitiveConstants) = NUM_PRIMITIVES
    /\ \A i \in 1..NUM_PRIMITIVES :
          LET h == PrimitiveConstants[i]
          IN  /\ h = i - 1
              /\ types_[h + 1] = TypeMeta(PrimitiveSizes[i], PrimitiveSizes[i], 0, 0, h)
              /\ kind_of(h) = {[outcome |-> "ok", value |-> h]}
    /\ (last.op = "register_struct" /\ last.outcome # "crash") => last.ret >= NUM_PRIMITIVES

\* Two structs were registered and a row was inserted after store construction.
C10_Witness ==
    /\ reg_calls = 2
    /\ last.op = "insert" /\ last.outcome = "ok"
    /\ IsStruct(last.type)

----------------------------------------------------------------------------
(* C4: layout correctness *)

\* The layout claimed for struct h, whose fields are of registered types.
LayoutCorrect(h) ==
    LET m  == types_[h + 1]
        n  == Len(field_types(h))
        fo == field_offsets(h)
    IN  /\ m.kind_ = STRUCT
        /\ m.field_count_ = n
        /\ m.alignment_ >= 1
        /\ \A i \in 1..n : m.alignment_ >= FieldMeta(h, i).alignment_
        /\ m.alignment_ = 1 \/ \E i \in 1..n : m.alignment_ = FieldMeta(h, i).alignment_
        /\ \A i \in 1..n :
              /\ fo[i] % FieldMeta(h, i).alignment_ = 0
              /\ fo[i] >= FieldEnd(h, i - 1)
              /\ fo[i] - FieldEnd(h, i - 1) < FieldMeta(h, i).alignment_
        /\ \A i, j \in 1..n : i < j => fo[i] <= fo[j] /\ FieldEnd(h, i) <= fo[j]
        /\ m.size_ % m.alignment_ = 0
        /\ m.size_ >= FieldEnd(h, n)
        /\ m.size_ - FieldEnd(h, n) < m.alignment_

\* Struct h has fields of sizes and alignments 1, 8, 4 in that order.
IsExample184(h) ==
    /\ Len(field_types(h)) = 3
    /\ \A i \in 1..3 :
          /\ FieldMeta(h, i).size_ = <<1, 8, 4>>[i]
          /\ FieldMeta(h, i).alignment_ = <<1, 8, 4>>[i]

\* C4: every struct registered over already-registered field types has
\* alignment max(1, field alignments); each offset is the smallest multiple of
\* the field's alignment that is >= the end of the previous field; offsets are
\* non-decreasing and field ranges do not overlap; the size is the smallest
\* multiple of the alignment >= the end of the last field.  Fields of sizes
\* and alignments 1, 8, 4 give offsets <<0, 8, 16>>, alignment 8, size 24.
C4_LayoutCorrect ==
    \A h \in StructHandles :
        FieldsRegistered(h) =>
            /\ LayoutCorrect(h)
            /\ IsExample184(h) =>
                  /\ field_offsets(h) = <<0, 8, 16>>
                  /\ types_[h + 1].alignment_ = 8
                  /\ types_[h + 1].size_ = 24

\* The struct {u8, u64, u32} is registered, after another struct.
C4_Witness ==
    \E h \in StructHandles :
        /\ h > NUM_PRIMITIVES
        /\ field_types(h) = <<U8, U64, U32>>
        /\ last.outcome = "ok"

----------------------------------------------------------------------------
(* C8: handle stability *)

\* C8: the k-th register_struct call returns handle 12 + k - 1, a value no
\* earlier call returned; and in every step the TypeMeta of every handle
\* registered so far - kind, size, alignment, field names, field types and
\* field offsets - stays what it was.
C8_HandleStability ==
    [][/\ Len(types_') >= Len(types_)
       /\ \A h \in 0..(Len(types_) - 1) :
             /\ meta_of(h)' = meta_of(h)
             /\ field_names(h)' = field_names(h)
             /\ field_types(h)' = field_types(h)
             /\ field_offsets(h)' = field_offsets(h)
       /\ reg_calls' # reg_calls =>
             /\ last'.ret = NUM_PRIMITIVES + reg_calls' - 1
             /\ last'.ret >= Len(types_)
             /\ \A r \in 0..Len(types_) :
                   r = last'.ret =>
                       /\ ValidHandle(r)'
                       /\ kind_of(r)' = {[outcome |-> "ok", value |-> STRUCT]}
                       /\ Len(field_types(r)') = Len(last'.fields)
      ]_vars

\* Two structs with fields are registered and rows were inserted since.
C8_Witness ==
    /\ reg_calls = 2
    /\ \A h \in StructHandles : Len(field_types(h)) >= 1
    /\ last.op = "insert" /\ last.outcome = "ok"
    /\ \E h \in DOMAIN tables_ : row_count(tables_[h]) = 2

----------------------------------------------------------------------------
(* C6: row-count monotonicity *)

\* C6: after N inserts for a handle its table exists and has row count N; a
\* table is there only for a handle that was inserted to; no step removes a
\* table or decreases a row count.
C6_RowCount ==
    /\ [](/\ DOMAIN tables_ = DOMAIN inserted
          /\ \A h \in DOMAIN inserted : row_count(tables_[h]) = Len(inserted[h]))
    /\ [][\A h \in DOMAIN tables_ :
             /\ h \in DOMAIN tables_'
             /\ row_count(tables_'[h]) >= row_count(tables_[h])
             /\ row_count(tables_'[h]) <= row_count(tables_[h]) + 1
         ]_vars

\* A struct got two rows, then another struct was registered.
C6_Witness ==
    /\ last.op = "register_struct" /\ last.outcome = "ok"
    /\ reg_calls = 2
    /\ \E a \in StructHandles :
          /\ HasTable(a)
          /\ row_count(tables_[a]) = 2
          /\ Len(tables_[a].columns_) >= 1

----------------------------------------------------------------------------
(* C7: cross-type isolation *)

\* C7: an insert for handle A leaves the table of every other handle B as it
\* was: as absent or present, with the same row count and the same bytes in
\* every column, so query_first(B) returns what it returned before.
C7_Isolation ==
    [][last'.op = "insert" /\ last'.outcome # "crash" =>
          \A b \in HandlesOver(StorePrims) :
              b # last'.type =>
                  /\ HasTable(b)' = HasTable(b)
                  /\ HasTable(b) => tables_'[b] = tables_[b]
                  /\ \A n \in TSizes(b) : query_first(b, n)' = query_first(b, n)
      ]_vars

\* A row was inserted for one struct while another struct had a row.
C7_Witness ==
    /\ last.op = "insert" /\ last.outcome = "ok"
    /\ IsStruct(last.type)
    /\ \E b \in StructHandles :
          /\ b # last.type
          /\ HasTable(b)
          /\ row_count(tables_[b]) >= 1
          /\ Len(tables_[b].columns_) >= 1

----------------------------------------------------------------------------
(* C9: first-row query semantics *)

\* C9: query_first returns a zero-filled value, and no error, when the handle
\* has no table or its table has no rows; otherwise every byte of every field
\* of the returned value is that byte of the first value ever inserted for the
\* handle, however many values were inserted after it.
C9_FirstRow ==
    \A h \in HandlesOver(StorePrims) :
    \A n \in TSizes(h) :
        IF ~HasTable(h) \/ row_count(tables_[h]) = 0
        THEN query_first(h, n) = {[outcome |-> "ok", value |-> zero_value(n)]}
        ELSE ValidHandle(h) =>
                /\ read_in_bounds(tables_[h], n) =>
                      \E r \in query_first(h, n) : r.outcome = "ok"
                /\ \A r \in query_first(h, n) :
                      r.outcome = "ok" =>
                          /\ Len(r.value) = n
                          /\ \A k \in 1..n :
                                InField(h, k) /\ k <= Len(inserted[h][1]) =>
                                    r.value[k] = inserted[h][1][k]

\* A struct with a field got two different values, one after the other.
C9_Witness ==
    /\ last.outcome = "ok"
    /\ \E h \in StructHandles :
          /\ HasTable(h)
          /\ row_count(tables_[h]) = 2
          /\ InField(h, 1)
          /\ inserted[h][1][1] # inserted[h][2][1]

----------------------------------------------------------------------------
(* C1: round trip *)

\* The last call was the first insert for a struct, of a value of its size.
FirstInsertOfStruct ==
    /\ last.op = "insert" /\ last.outcome = "ok"
    /\ IsStruct(last.type)
    /\ Len(inserted[last.type]) = 1
    /\ Len(last.src) = RegisteredSize(last.type)

\* C1 as stated: query_first right after the first insert of v for a struct
\* returns a value equal to v in every byte of the registered size.
C1_RoundTripAllBytes ==
    FirstInsertOfStruct =>
        query_first(last.type, Len(last.src)) = {[outcome |-> "ok", value |-> last.src]}

\* C1 as amended: query_first right after the first insert of v for a struct
\* returns a value equal to v in every byte that lies inside a field, and 0 in
\* every other byte (the padding) of the registered size.
C1_RoundTripFields ==
    FirstInsertOfStruct =>
        query_first(last.type, Len(last.src)) =
            {[outcome |-> "ok",
              value |-> [k \in 1..Len(last.src) |->
                            IF InField(last.type, k) THEN last.src[k] ELSE 0]]}

\* The first insert for a struct that has two fields and padding.
C1_Witness ==
    /\ FirstInsertOfStruct
    /\ Len(field_types(last.type)) = 2
    /\ \E k \in 1..RegisteredSize(last.type) : ~InField(last.type, k)

----------------------------------------------------------------------------
(* C2: size check *)

\* C2: an insert and a query_first whose value type has a size other than
\* size_of(handle) fail (with an error, or by ending the process), and such an
\* insert leaves every table as it was.
C2_SizeCheck ==
    [][/\ (/\ last'.op = "insert"
           /\ ValidHandle(last'.type)
           /\ last'.size # RegisteredSize(last'.type))
          => /\ last'.outcome \in {"error", "crash"}
             /\ tables_' = tables_
       /\ (/\ last'.op = "query_first"
           /\ ValidHandle(last'.type)
           /\ last'.size # RegisteredSize(last'.type))
          => last'.outcome \in {"error", "crash"}
      ]_vars

----------------------------------------------------------------------------
(* C3: invalid handle *)

\* C3: a call that uses a handle not below the number of registered types -
\* as a field type in register_struct, as the type of an insert, or in
\* meta_of / size_of / align_of / kind_of - fails with an error, reads nothing
\* out of bounds, and leaves the registry and the tables as they were.
C3_InvalidHandle ==
    [][(\/ /\ last'.op = "register_struct"
           /\ \E i \in 1..Len(last'.fields) : last'.fields[i] >= Len(types_)
        \/ /\ last'.op \in {"insert", "meta_of", "size_of", "align_of", "kind_of"}
           /\ last'.type >= Len(types_))
       => /\ last'.outcome = "error"
          /\ UNCHANGED <<schema_, tables_>>
      ]_vars

----------------------------------------------------------------------------
(* C5: equal column row counts *)

\* C5: in every state every Column of a Table reports, as its row_count(),
\* the row_count() of the Table.
C5_EqualRowCounts ==
    \A h \in DOMAIN tables_ :
    \A i \in 1..Len(tables_[h].columns_) :
        col_row_count(tables_[h].columns_[i]) = row_count(tables_[h])

====
